---- MODULE Spec2Model ----
(***************************************************************************)
(* A model of the microsite static site generator (src/build.py and       *)
(* src/utils.py).  Strings are sequences of one-character strings, paths   *)
(* are sequences of segments, and a Markdown text is a sequence of lexical *)
(* tokens.  Three specifications share the module:                         *)
(*   SlugSpec  slugify applied to a title and to its own result            *)
(*   MdSpec    render_markdown, one step per statement group               *)
(*   Spec      build_site: process_content over a content tree, then the   *)
(*             page and tag-page writes                                    *)
(***************************************************************************)
EXTENDS Integers, Sequences, FiniteSets, TLC

VARIABLES
    \* slugify
    slugPc, slugIn, slugOut, slugOut2,
    \* render_markdown
    mdPc, mdInput, mdRefs, mdText, placeholders, count,
    \* build_site / process_content
    pc, tree, extraDirs, cursor, pages, posts, sections, tags, nav, public,
    \* generate_url
    urlPc, urlRelPath, urlSlug, urlOfIndex, urlOfContentIndex,
    \* process_markdown_assets / process_obsidian_assets
    asPc, asRefs, asCursor, assetsDir, assets_copied, asOut,
    \* sync_content
    syncPc, external_path, vault, syncCursor, content

slugVars == <<slugPc, slugIn, slugOut, slugOut2>>
mdVars == <<mdPc, mdInput, mdRefs, mdText, placeholders, count>>
buildVars == <<pc, tree, extraDirs, cursor, pages, posts, sections, tags, nav, public>>
urlVars == <<urlPc, urlRelPath, urlSlug, urlOfIndex, urlOfContentIndex>>
assetVars == <<asPc, asRefs, asCursor, assetsDir, assets_copied, asOut>>
syncVars == <<syncPc, external_path, vault, syncCursor, content>>
vars == <<slugVars, mdVars, buildVars, urlVars, assetVars, syncVars>>

(***************************************************************************)
(* Bounds of the model.                                                    *)
(***************************************************************************)
\* longest title handed to slugify in SlugSpec
MaxSlugLen == 4
\* longest LaTeX-bearing token text handed to render_markdown
MaxLatexLen == 7
\* most image references in one text handed to render_markdown
MaxImages == 2
\* most Markdown files in a content tree
MaxFiles == 3

(***************************************************************************)
(* Generic sequence helpers.                                               *)
(***************************************************************************)
Last(s) == s[Len(s)]

RECURSIVE Flatten(_)
Flatten(ss) == IF ss = <<>> THEN <<>> ELSE Head(ss) \o Flatten(Tail(ss))

Reverse(s) == [i \in 1..Len(s) |-> s[Len(s) + 1 - i]]

SeqsUpTo(S, n) == UNION {[1..k -> S] : k \in 0..n}

Range(s) == {s[i] : i \in 1..Len(s)}

\* sub occurs in s as a contiguous run
Contains(s, sub) ==
    \E i \in 1..(Len(s) - Len(sub) + 1) : SubSeq(s, i, i + Len(sub) - 1) = sub

(***************************************************************************)
(* Characters: str.lower / str.upper on the ASCII letters.                 *)
(***************************************************************************)
LowerLetters ==
    <<"a","b","c","d","e","f","g","h","i","j","k","l","m",
      "n","o","p","q","r","s","t","u","v","w","x","y","z">>

UpperLetters ==
    <<"A","B","C","D","E","F","G","H","I","J","K","L","M",
      "N","O","P","Q","R","S","T","U","V","W","X","Y","Z">>

Digits == {"0","1","2","3","4","5","6","7","8","9"}

IsLower(c) == c \in Range(LowerLetters)
IsUpper(c) == c \in Range(UpperLetters)

LowerChar(c) ==
    IF IsUpper(c)
    THEN LowerLetters[CHOOSE i \in 1..26 : UpperLetters[i] = c]
    ELSE c

UpperChar(c) ==
    IF IsLower(c)
    THEN UpperLetters[CHOOSE i \in 1..26 : LowerLetters[i] = c]
    ELSE c

\* text.lower()
Lower(s) == [i \in 1..Len(s) |-> LowerChar(s[i])]

\* the character class [a-z0-9]
IsSlugAlnum(c) == IsLower(c) \/ c \in Digits

(***************************************************************************)
(* slugify (utils.py 12-17).                                               *)
(***************************************************************************)
\* re.sub(r'[^a-z0-9]+', '-', text): every maximal run of other characters
\* becomes one '-'
RECURSIVE SubNonAlnumRuns(_)
SubNonAlnumRuns(s) ==
    IF s = <<>> THEN <<>>
    ELSE IF IsSlugAlnum(Head(s)) THEN <<Head(s)>> \o SubNonAlnumRuns(Tail(s))
    ELSE IF Len(s) > 1 /\ ~IsSlugAlnum(s[2]) THEN SubNonAlnumRuns(Tail(s))
    ELSE <<"-">> \o SubNonAlnumRuns(Tail(s))

\* re.sub(r'^\-|\-$', '', text): one '-' at the start and one at the end go
StripEdgeDashes(s) ==
    LET a == IF s # <<>> /\ Head(s) = "-" THEN Tail(s) ELSE s
    IN  IF a # <<>> /\ Last(a) = "-" THEN SubSeq(a, 1, Len(a) - 1) ELSE a

\* mutant: the edge-dash substitution left out
slugify_NoStrip(text) == SubNonAlnumRuns(Lower(text))

slugify(text) == StripEdgeDashes(SubNonAlnumRuns(Lower(text)))

(***************************************************************************)
(* SlugSpec: slugify on a title, then on the slug it returned.             *)
(***************************************************************************)
SlugAlphabet == {"a", "B", "1", "-", " ", "_"}

SlugIdle ==
    /\ slugPc = "idle" /\ slugIn = <<>> /\ slugOut = <<>> /\ slugOut2 = <<>>

SlugInit ==
    /\ slugPc = "start"
    /\ slugIn \in SeqsUpTo(SlugAlphabet, MaxSlugLen)
    /\ slugOut = <<>>
    /\ slugOut2 = <<>>

Slugify ==
    /\ slugPc = "start"
    /\ slugOut' = slugify(slugIn)
    /\ slugPc' = "slugged"
    /\ UNCHANGED <<slugIn, slugOut2>>

SlugifyAgain ==
    /\ slugPc = "slugged"
    /\ slugOut2' = slugify(slugOut)
    /\ slugPc' = "done"
    /\ UNCHANGED <<slugIn, slugOut>>

SlugNext ==
    \/ Slugify /\ UNCHANGED <<mdVars, buildVars, urlVars, assetVars, syncVars>>
    \/ SlugifyAgain /\ UNCHANGED <<mdVars, buildVars, urlVars, assetVars, syncVars>>

(***************************************************************************)
(* render_markdown (utils.py 104-188) on token texts.  The tokens are      *)
(*   "$"  "\\"  "\n"  "x"            LaTeX delimiters, backslash, newline    *)
(*   "![" "](" ")" "|" " " "px"      the image syntax ![alt|width](src)     *)
(*   a digit, "abc", "width=", "a", "s"   alt, width and src material       *)
(* and the tokens the function itself emits.                               *)
(***************************************************************************)
Min(S) == CHOOSE m \in S : \A k \in S : m <= k

NoNewline(t, from, to) == \A k \in from..to : t[k] # "\n"

\* f"LATEX_BLOCK_{count}_" and f"LATEX_INLINE_{count}_"
BlockPlaceholder(n) == "LATEX_BLOCK_" \o ToString(n) \o "_"
InlinePlaceholder(n) == "LATEX_INLINE_" \o ToString(n) \o "_"

IsPlaceholder(tok) ==
    \E n \in 0..MaxLatexLen : tok = BlockPlaceholder(n) \/ tok = InlinePlaceholder(n)

\* (?<!\\)\$\$ at p
BlockOpensAt(t, p) ==
    /\ p + 1 <= Len(t) /\ t[p] = "$" /\ t[p + 1] = "$"
    /\ (p = 1 \/ t[p - 1] # "\\")

\* the places where (.*?)(?<!\\)\$\$ can close a block opened at p (DOTALL)
BlockCloses(t, p) ==
    {q \in (p + 2)..(Len(t) - 1) : t[q] = "$" /\ t[q + 1] = "$" /\ t[q - 1] # "\\"}

\* re.sub(r'(?<!\\)\$\$(.*?)(?<!\\)\$\$', replace_block, text, flags=re.DOTALL)
RECURSIVE SubBlocks(_, _, _, _, _)
SubBlocks(t, p, n, out, phs) ==
    IF p > Len(t) THEN [text |-> out, phs |-> phs, count |-> n]
    ELSE IF BlockOpensAt(t, p) /\ BlockCloses(t, p) # {}
    THEN LET q == Min(BlockCloses(t, p))
             ph == BlockPlaceholder(n)
         IN  SubBlocks(t, q + 2, n + 1, Append(out, ph),
                       Append(phs, <<ph, SubSeq(t, p, q + 1)>>))
    ELSE SubBlocks(t, p + 1, n, Append(out, t[p]), phs)

\* (?<!\\)\$ at p
InlineOpensAt(t, p) == t[p] = "$" /\ (p = 1 \/ t[p - 1] # "\\")

\* the places where (.*?)(?<!\\)\$ can close a span opened at p ('.' stops at
\* a newline)
InlineCloses(t, p) ==
    {q \in (p + 1)..Len(t) :
        t[q] = "$" /\ t[q - 1] # "\\" /\ NoNewline(t, p + 1, q - 1)}

\* re.sub(r'(?<!\\)\$(.*?)(?<!\\)\$', replace_inline, text)
RECURSIVE SubInlines(_, _, _, _, _)
SubInlines(t, p, n, out, phs) ==
    IF p > Len(t) THEN [text |-> out, phs |-> phs, count |-> n]
    ELSE IF InlineOpensAt(t, p) /\ InlineCloses(t, p) # {}
    THEN LET q == Min(InlineCloses(t, p))
             ph == InlinePlaceholder(n)
         IN  SubInlines(t, q + 1, n + 1, Append(out, ph),
                        Append(phs, <<ph, SubSeq(t, p, q)>>))
    ELSE SubInlines(t, p + 1, n, Append(out, t[p]), phs)

\* where !\[(.*?)\]\((.*?)\) opened at p can end: <<q, r>> with "](" at q and
\* ")" at r
ImageMatches(t, p) ==
    {qr \in ((p + 1)..Len(t)) \X ((p + 2)..Len(t)) :
        /\ qr[1] < qr[2]
        /\ t[qr[1]] = "](" /\ t[qr[2]] = ")"
        /\ NoNewline(t, p + 1, qr[1] - 1)
        /\ NoNewline(t, qr[1] + 1, qr[2] - 1)}

\* the lazy match: the first "](" that a ")" follows, then the first ")"
ImageMatch(t, p) ==
    LET ms == ImageMatches(t, p)
        q == Min({m[1] : m \in ms})
    IN  <<q, Min({m[2] : m \in {k \in ms : k[1] = q}})>>

\* str.strip() on a token run: blanks at both ends go
RECURSIVE StripBlanks(_)
StripBlanks(w) ==
    IF w # <<>> /\ Head(w) = " " THEN StripBlanks(Tail(w))
    ELSE IF w # <<>> /\ Last(w) = " " THEN StripBlanks(SubSeq(w, 1, Len(w) - 1))
    ELSE w

\* str.isdigit()
IsDigits(w) == w # <<>> /\ \A i \in 1..Len(w) : w[i] \in Digits

\* alt_width.rsplit('|', 1)
LastBar(w) == CHOOSE i \in 1..Len(w) : w[i] = "|" /\ \A k \in (i + 1)..Len(w) : w[k] # "|"

\* width.strip(), then a trailing 'px' cut
WidthOf(alt_width) ==
    LET raw == StripBlanks(SubSeq(alt_width, LastBar(alt_width) + 1, Len(alt_width)))
    IN  IF raw # <<>> /\ Last(raw) = "px" THEN SubSeq(raw, 1, Len(raw) - 1) ELSE raw

HasNumericWidth(alt_width) == "|" \in Range(alt_width) /\ IsDigits(WidthOf(alt_width))

\* process_images (utils.py 136-153)
process_images(alt_width, src) ==
    IF HasNumericWidth(alt_width)
    THEN <<"![">> \o SubSeq(alt_width, 1, LastBar(alt_width) - 1) \o <<"](">> \o src
         \o <<")", "<!-- img-width:">> \o WidthOf(alt_width) \o <<" -->">>
    ELSE <<"![">> \o alt_width \o <<"](">> \o src \o <<")">>

\* re.sub(r'!\[(.*?)\]\((.*?)\)', process_images, text)
RECURSIVE SubImages(_, _)
SubImages(t, p) ==
    IF p > Len(t) THEN <<>>
    ELSE IF t[p] = "![" /\ ImageMatches(t, p) # {}
    THEN LET m == ImageMatch(t, p)
         IN  process_images(SubSeq(t, p + 1, m[1] - 1), SubSeq(t, m[1] + 1, m[2] - 1))
             \o SubImages(t, m[2] + 1)
    ELSE <<t[p]>> \o SubImages(t, p + 1)

\* markdown.markdown on the inline constructs of the token alphabet: an image
\* becomes <img alt="..." src="..." />, an escaped backslash becomes one
\* backslash, an HTML comment and any other token pass through
RECURSIVE MarkdownInline(_, _)
MarkdownInline(t, p) ==
    IF p > Len(t) THEN <<>>
    ELSE IF t[p] = "![" /\ ImageMatches(t, p) # {}
    THEN LET m == ImageMatch(t, p)
         IN  <<"<img ", "alt=\"">> \o SubSeq(t, p + 1, m[1] - 1) \o <<"\" src=\"">>
             \o SubSeq(t, m[1] + 1, m[2] - 1) \o <<"\" /", ">">>
             \o MarkdownInline(t, m[2] + 1)
    ELSE IF t[p] = "\\" /\ p < Len(t) /\ t[p + 1] = "\\"
    THEN <<"\\">> \o MarkdownInline(t, p + 2)
    ELSE <<t[p]>> \o MarkdownInline(t, p + 1)

\* where <img (.*?)><!-- img-width:(\d+) --> opened at p can end: <<q, e>>
\* with ">" at q, the marker's digits in q+2..e-1 and " -->" at e
WidthMatches(t, p) ==
    {qe \in ((p + 1)..Len(t)) \X ((p + 4)..Len(t)) :
        /\ qe[1] + 3 <= qe[2]
        /\ t[qe[1]] = ">" /\ t[qe[1] + 1] = "<!-- img-width:"
        /\ IsDigits(SubSeq(t, qe[1] + 2, qe[2] - 1))
        /\ t[qe[2]] = " -->"
        /\ NoNewline(t, p + 1, qe[1] - 1)}

WidthMatch(t, p) ==
    LET ms == WidthMatches(t, p)
        q == Min({m[1] : m \in ms})
    IN  <<q, Min({m[2] : m \in {k \in ms : k[1] = q}})>>

\* 'width=' in img_tag
MentionsWidth(img_tag) == \E i \in 1..Len(img_tag) : img_tag[i] \in {"width=", " width=\""}

\* add_image_width (utils.py 170-179)
add_image_width(img_tag, width) ==
    IF MentionsWidth(img_tag)
    THEN <<"<img ">> \o img_tag \o <<">">>
    ELSE <<"<img ">> \o img_tag \o <<" width=\"">> \o width \o <<"\"", ">">>

\* re.sub(r'<img (.*?)><!-- img-width:(\d+) -->', add_image_width, html)
RECURSIVE SubWidths(_, _)
SubWidths(t, p) ==
    IF p > Len(t) THEN <<>>
    ELSE IF t[p] = "<img " /\ WidthMatches(t, p) # {}
    THEN LET m == WidthMatch(t, p)
         IN  add_image_width(SubSeq(t, p + 1, m[1] - 1), SubSeq(t, m[1] + 2, m[2] - 1))
             \o SubWidths(t, m[2] + 1)
    ELSE <<t[p]>> \o SubWidths(t, p + 1)

\* html.replace(placeholder, latex)
ReplaceToken(t, ph, latex) ==
    Flatten([i \in 1..Len(t) |-> IF t[i] = ph THEN latex ELSE <<t[i]>>])

\* for placeholder, latex in placeholders.items(): html = html.replace(...)
RECURSIVE RestoreLatex(_, _)
RestoreLatex(t, phs) ==
    IF phs = <<>> THEN t
    ELSE RestoreLatex(ReplaceToken(t, Head(phs)[1], Head(phs)[2]), Tail(phs))

(***************************************************************************)
(* MdSpec: render_markdown on one text.                                    *)
(***************************************************************************)
LatexAlphabet == {"$", "x", "\\", "\n"}

ImageAlts == {<<"a">>, <<"a", "width=">>, <<"a", "|", "a">>}
ImageWidthSpecs ==
    {<<>>, <<"|", "3">>, <<"|", "1", "2", "px">>, <<"|", " ", "3", " ">>,
     <<"|", "abc">>, <<"|", "3", " ", "px">>}
ImageSrcs == {<<"s">>, <<"s", "width=">>}
ImageRefs == [alt : ImageAlts, spec : ImageWidthSpecs, src : ImageSrcs]

\* the source text of a reference: ![alt|width](src)
RefText(r) == <<"![">> \o r.alt \o r.spec \o <<"](">> \o r.src \o <<")">>

RECURSIVE RefsText(_)
RefsText(rs) ==
    IF rs = <<>> THEN <<>>
    ELSE IF Len(rs) = 1 THEN RefText(rs[1])
    ELSE RefText(rs[1]) \o <<" ">> \o RefsText(Tail(rs))

MdIdle ==
    /\ mdPc = "idle" /\ mdInput = <<>> /\ mdRefs = <<>> /\ mdText = <<>>
    /\ placeholders = <<>> /\ count = 0

MdInit ==
    /\ mdPc = "block"
    /\ \/ mdRefs = <<>> /\ mdInput \in SeqsUpTo(LatexAlphabet, MaxLatexLen)
       \/ mdRefs \in SeqsUpTo(ImageRefs, MaxImages) /\ mdRefs # <<>>
          /\ mdInput = RefsText(mdRefs)
    /\ mdText = mdInput
    /\ placeholders = <<>>
    /\ count = 0

\* utils.py 116-123
MdExtractBlocks ==
    /\ mdPc = "block"
    /\ LET r == SubBlocks(mdText, 1, count, <<>>, placeholders)
       IN  mdText' = r.text /\ placeholders' = r.phs /\ count' = r.count
    /\ mdPc' = "inline"
    /\ UNCHANGED <<mdInput, mdRefs>>

\* utils.py 126-133
MdExtractInlines ==
    /\ mdPc = "inline"
    /\ LET r == SubInlines(mdText, 1, count, <<>>, placeholders)
       IN  mdText' = r.text /\ placeholders' = r.phs /\ count' = r.count
    /\ mdPc' = "images"
    /\ UNCHANGED <<mdInput, mdRefs>>

\* utils.py 136-156
MdProcessImages ==
    /\ mdPc = "images"
    /\ mdText' = SubImages(mdText, 1)
    /\ mdPc' = "markdown"
    /\ UNCHANGED <<mdInput, mdRefs, placeholders, count>>

\* utils.py 159-167
MdMarkdown ==
    /\ mdPc = "markdown"
    /\ mdText' = MarkdownInline(mdText, 1)
    /\ mdPc' = "width"
    /\ UNCHANGED <<mdInput, mdRefs, placeholders, count>>

\* utils.py 170-182
MdAddImageWidths ==
    /\ mdPc = "width"
    /\ mdText' = SubWidths(mdText, 1)
    /\ mdPc' = "restore"
    /\ UNCHANGED <<mdInput, mdRefs, placeholders, count>>

\* utils.py 185-188
MdRestoreLatex ==
    /\ mdPc = "restore"
    /\ mdText' = RestoreLatex(mdText, placeholders)
    /\ mdPc' = "done"
    /\ UNCHANGED <<mdInput, mdRefs, placeholders, count>>

MdNext ==
    \/ MdExtractBlocks /\ UNCHANGED <<slugVars, buildVars, urlVars, assetVars, syncVars>>
    \/ MdExtractInlines /\ UNCHANGED <<slugVars, buildVars, urlVars, assetVars, syncVars>>
    \/ MdProcessImages /\ UNCHANGED <<slugVars, buildVars, urlVars, assetVars, syncVars>>
    \/ MdMarkdown /\ UNCHANGED <<slugVars, buildVars, urlVars, assetVars, syncVars>>
    \/ MdAddImageWidths /\ UNCHANGED <<slugVars, buildVars, urlVars, assetVars, syncVars>>
    \/ MdRestoreLatex /\ UNCHANGED <<slugVars, buildVars, urlVars, assetVars, syncVars>>

(***************************************************************************)
(* Names and paths of the build (build.py 20-27).                          *)
(***************************************************************************)
PUBLIC_DIR == <<"p","u","b","l","i","c">>
INDEX_HTML == <<"i","n","d","e","x",".","h","t","m","l">>
DEFAULT_LAYOUT == "page.html"
POST_LAYOUT == "post.html"
LIST_LAYOUT == "list.html"
HOME_LAYOUT == "home.html"

Blog == <<"b","l","o","g">>
UnderscoreIndex == <<"_","i","n","d","e","x">>
Index == <<"i","n","d","e","x">>

\* Python's None, as the 'section' of a page at the content root
None == <<"None">>

\* str(rel_path): the segments joined by '/', and '.' for Path('')
RECURSIVE JoinSegments(_)
JoinSegments(segs) ==
    IF segs = <<>> THEN <<>>
    ELSE IF Len(segs) = 1 THEN segs[1]
    ELSE segs[1] \o <<"/">> \o JoinSegments(Tail(segs))

PathStr(rel_path) == IF rel_path = <<>> THEN <<".">> ELSE JoinSegments(rel_path)

\* the segments a string adds to a path: split at '/', empty and '.' segments
\* dropped
RECURSIVE SplitSegments(_, _)
SplitSegments(s, cur) ==
    LET done == IF cur = <<>> \/ cur = <<".">> THEN <<>> ELSE <<cur>>
    IN  IF s = <<>> THEN done
        ELSE IF Head(s) = "/" THEN done \o SplitSegments(Tail(s), <<>>)
        ELSE SplitSegments(Tail(s), Append(cur, Head(s)))

\* base / s for a pathlib path and a string: an absolute s replaces base
PathJoin(base, s) ==
    IF s # <<>> /\ Head(s) = "/" THEN <<<<"/">>>> \o SplitSegments(s, <<>>)
    ELSE base \o SplitSegments(s, <<>>)

\* mutant: the nested-page URL built without its closing slash
generate_url_NoTrailingSlash(rel_path, output_dir, is_index, is_content_index, slug) ==
    IF is_index /\ rel_path = <<>>
    THEN [url |-> <<"/">>, output_path |-> <<output_dir, INDEX_HTML>>]
    ELSE IF is_index \/ is_content_index
    THEN [url |-> <<"/">> \o PathStr(rel_path) \o <<"/">>,
          output_path |-> <<output_dir>> \o rel_path \o <<INDEX_HTML>>]
    ELSE IF rel_path = <<>>
    THEN [url |-> <<"/">> \o slug \o <<"/">>,
          output_path |-> PathJoin(<<output_dir>>, slug) \o <<INDEX_HTML>>]
    ELSE [url |-> <<"/">> \o PathStr(rel_path) \o <<"/">> \o slug,
          output_path |-> PathJoin(<<output_dir>> \o rel_path, slug) \o <<INDEX_HTML>>]

\* generate_url (utils.py 89-102)
generate_url(rel_path, output_dir, is_index, is_content_index, slug) ==
    IF is_index
    THEN IF rel_path = <<>>
         THEN [url |-> <<"/">>, output_path |-> <<output_dir, INDEX_HTML>>]
         ELSE [url |-> <<"/">> \o PathStr(rel_path) \o <<"/">>,
               output_path |-> <<output_dir>> \o rel_path \o <<INDEX_HTML>>]
    ELSE IF is_content_index
    THEN [url |-> <<"/">> \o PathStr(rel_path) \o <<"/">>,
          output_path |-> <<output_dir>> \o rel_path \o <<INDEX_HTML>>]
    ELSE IF rel_path = <<>>
    THEN [url |-> <<"/">> \o slug \o <<"/">>,
          output_path |-> PathJoin(<<output_dir>>, slug) \o <<INDEX_HTML>>]
    ELSE [url |-> <<"/">> \o PathStr(rel_path) \o <<"/">> \o slug \o <<"/">>,
          output_path |-> PathJoin(<<output_dir>> \o rel_path, slug) \o <<INDEX_HTML>>]

(***************************************************************************)
(* list.sort(key=...) (stable) and its reverse=True form.                  *)
(***************************************************************************)
\* index i put into the sorted run of indices behind every index whose key is
\* not greater
RECURSIVE InsertByKey(_, _, _)
InsertByKey(order, i, keys) ==
    IF order = <<>> THEN <<i>>
    ELSE IF keys[Head(order)] <= keys[i]
    THEN <<Head(order)>> \o InsertByKey(Tail(order), i, keys)
    ELSE <<i>> \o order

RECURSIVE SortedIndices(_, _)
SortedIndices(n, keys) ==
    IF n = 0 THEN <<>> ELSE InsertByKey(SortedIndices(n - 1, keys), n, keys)

\* s sorted by keys (keys[i] is the key of s[i]), equal keys in their order
StableSort(s, keys) ==
    LET order == SortedIndices(Len(s), keys)
    IN  [k \in 1..Len(s) |-> s[order[k]]]

\* reverse=True: the list is reversed, sorted, and reversed again, which
\* leaves equal keys in their original order
StableSortReverse(s, keys) == Reverse(StableSort(Reverse(s), Reverse(keys)))

Dates(ps) == [i \in 1..Len(ps) |-> ps[i].date]
Weights(es) == [i \in 1..Len(es) |-> es[i].weight]

\* mutant: ascending sort followed by a plain reversal
SortPosts_ReverseAfter(ps) == Reverse(StableSort(ps, Dates(ps)))

\* posts.sort(key=lambda x: x['date'], reverse=True) (build.py 174)
SortPosts(ps) == StableSortReverse(ps, Dates(ps))

(***************************************************************************)
(* The content tree: Markdown files under content/, each with its          *)
(* directory, stem, frontmatter and modification date.                     *)
(***************************************************************************)
Me == <<"m","e">>
Go == <<"g","o">>

ContentFiles ==
    { [dir |-> <<>>, stem |-> UnderscoreIndex, mtime |-> 1,
       meta |-> [title |-> <<"H","o","m","e">>]],
      [dir |-> <<>>, stem |-> Me, mtime |-> 1, meta |-> <<>>],
      [dir |-> <<>>, stem |-> <<"c","v">>, mtime |-> 1, meta |-> [weight |-> 100]],
      [dir |-> <<>>, stem |-> <<"n","o","w">>, mtime |-> 1, meta |-> [weight |-> 0]],
      [dir |-> <<>>, stem |-> Index, mtime |-> 1, meta |-> [title |-> <<"S","i","t","e">>]],
      [dir |-> <<Me>>, stem |-> UnderscoreIndex, mtime |-> 1, meta |-> <<>>],
      [dir |-> <<Blog>>, stem |-> UnderscoreIndex, mtime |-> 1,
       meta |-> [title |-> <<"B","l","o","g">>]],
      [dir |-> <<Blog>>, stem |-> <<"p","-","1">>, mtime |-> 1,
       meta |-> [Date |-> 2, tags |-> <<<<"G","o">>, <<"s","y","s">>>>]],
      [dir |-> <<Blog>>, stem |-> <<"p","2">>, mtime |-> 1,
       meta |-> [Date |-> 2, tags |-> <<Go>>, title |-> <<"P"," ","2","!">>]],
      [dir |-> <<Blog>>, stem |-> Go, mtime |-> 3,
       meta |-> [tags |-> <<<<"G","o">>, Go>>]],
      [dir |-> <<>>, stem |-> <<"_","d">>, mtime |-> 1, meta |-> <<>>],
      [dir |-> <<>>, stem |-> <<"w","i","p">>, mtime |-> 1, meta |-> [draft |-> TRUE]],
      [dir |-> <<<<".","o">>>>, stem |-> <<"n">>, mtime |-> 1, meta |-> <<>>],
      [dir |-> <<<<"d">>>>, stem |-> UnderscoreIndex, mtime |-> 1,
       meta |-> [draft |-> TRUE]],
      [dir |-> <<Blog>>, stem |-> <<"w">>, mtime |-> 1,
       meta |-> [draft |-> TRUE, tags |-> <<<<"x">>>>]] }

\* page.get(key, default)
Get(meta, key, default) == IF key \in DOMAIN meta THEN meta[key] ELSE default

\* str.replace('-', ' ')
DashesToSpaces(s) == [i \in 1..Len(s) |-> IF s[i] = "-" THEN " " ELSE s[i]]

IsLetter(c) == IsLower(c) \/ IsUpper(c)

\* str.title(): a letter that follows a non-letter is upper-cased, any other
\* letter lower-cased
TitleCase(s) ==
    [i \in 1..Len(s) |->
        IF i = 1 \/ ~IsLetter(s[i - 1]) THEN UpperChar(s[i]) ELSE LowerChar(s[i])]

\* md_file.parts below content/: the directories and the file name; only the
\* first character of the file name is looked at, and the stem supplies it
StartsWithDot(name) == name # <<>> /\ Head(name) = "."
StartsWithUnderscore(name) == name # <<>> /\ Head(name) = "_"

InHiddenFolder(f) ==
    StartsWithDot(f.stem) \/ \E i \in 1..Len(f.dir) : StartsWithDot(f.dir[i])

IsDraftByName(f) == StartsWithUnderscore(f.stem) /\ f.stem # UnderscoreIndex

IsDraftByFrontmatter(f) == Get(f.meta, "draft", FALSE) = TRUE

\* the tests of build.py 85, 89 and 108 that end a file's iteration early
Skipped_NoDraft(f) == InHiddenFolder(f) \/ IsDraftByName(f)

Skipped(f) == InHiddenFolder(f) \/ IsDraftByName(f) \/ IsDraftByFrontmatter(f)

\* "blog" in md_file.parts and md_file.stem != '_index'
IsPost(f) == (\E i \in 1..Len(f.dir) : f.dir[i] = Blog) /\ f.stem # UnderscoreIndex

IsIndex(f) == f.stem = UnderscoreIndex

IsContentIndex(f) == f.stem = Index

\* build.py 112-146: the page object of file f, the id-th file of the scan
\* (id stands for the object's identity; the rendered body is left out)
PageObj(f, id) ==
    LET is_post == IsPost(f)
        is_index == IsIndex(f)
        title == Get(f.meta, "title", TitleCase(DashesToSpaces(f.stem)))
        slug == Get(f.meta, "slug", IF ~is_index THEN slugify(title) ELSE <<>>)
        u == generate_url(f.dir, PUBLIC_DIR, is_index, IsContentIndex(f), slug)
        layout == IF "layout" \in DOMAIN f.meta THEN f.meta.layout
                  ELSE IF is_index
                       THEN (IF f.dir = <<>> THEN HOME_LAYOUT ELSE LIST_LAYOUT)
                  ELSE IF is_post THEN POST_LAYOUT
                  ELSE DEFAULT_LAYOUT
    IN  [id |-> id,
         title |-> title,
         date |-> Get(f.meta, "Date", f.mtime),
         url |-> u.url,
         output_path |-> u.output_path,
         metadata |-> f.meta,
         is_post |-> is_post,
         is_index |-> is_index,
         section |-> IF f.dir # <<>> THEN f.dir[1] ELSE None,
         level |-> Len(f.dir),
         layout |-> layout]

\* the position of the record for tag_slug in the tag index, 0 if absent
TagPos(tgs, tag_slug) ==
    IF \E i \in 1..Len(tgs) : tgs[i].slug = tag_slug
    THEN CHOOSE i \in 1..Len(tgs) : tgs[i].slug = tag_slug
    ELSE 0

\* build.py 156-165 for one tag of a post
AddTag(tgs, tag, page) ==
    LET tag_slug == slugify(tag)
        known == IF TagPos(tgs, tag_slug) = 0
                 THEN Append(tgs, [name |-> tag, slug |-> tag_slug,
                                   count |-> 0, posts |-> <<>>])
                 ELSE tgs
        i == TagPos(known, tag_slug)
    IN  [known EXCEPT ![i] = [@ EXCEPT !.count = @ + 1,
                                       !.posts = Append(@, page)]]

\* build.py 153-165: for tag in post_tags
RECURSIVE AddTags(_, _, _)
AddTags(tgs, post_tags, page) ==
    IF post_tags = <<>> THEN tgs
    ELSE AddTags(AddTag(tgs, Head(post_tags), page), Tail(post_tags), page)

\* build.py 177-180: for post in posts: if section in sections: append
RECURSIVE GroupPosts(_, _)
GroupPosts(secs, ps) ==
    IF ps = <<>> THEN secs
    ELSE LET section == Head(ps).section
         IN  GroupPosts(IF section \in DOMAIN secs
                        THEN [secs EXCEPT ![section] = Append(@, Head(ps))]
                        ELSE secs,
                        Tail(ps))

\* the directories on disk under content/: those of the files, and extraDirs
DirPrefixes(d) == {SubSeq(d, 1, k) : k \in 1..Len(d)}
ContentDirs(files, extra) == extra \cup UNION {DirPrefixes(files[i].dir) : i \in 1..Len(files)}

\* build.py 52-58: the entries of the top-level pages
RECURSIVE PageEntries(_)
PageEntries(ps) ==
    IF ps = <<>> THEN <<>>
    ELSE LET page == Head(ps)
         IN  (IF ~page.is_post /\ ~page.is_index /\ page.level = 0
              THEN <<[title |-> page.title, url |-> page.url,
                      weight |-> Get(page.metadata, "weight", 50)]>>
              ELSE <<>>) \o PageEntries(Tail(ps))

HomeEntry == [title |-> <<"H","o","m","e">>, url |-> <<"/">>, weight |-> 0]
BlogEntry == [title |-> <<"B","l","o","g">>, url |-> <<"/">> \o Blog \o <<"/">>, weight |-> 100]

\* mutant: the sort by weight left out
get_nav_pages_Unsorted(ps, dirs) ==
    <<HomeEntry>> \o PageEntries(ps) \o (IF <<Blog>> \in dirs THEN <<BlogEntry>> ELSE <<>>)

\* get_nav_pages (build.py 40-71)
get_nav_pages(ps, dirs) ==
    LET nav_pages == <<HomeEntry>> \o PageEntries(ps)
                     \o (IF <<Blog>> \in dirs THEN <<BlogEntry>> ELSE <<>>)
    IN  StableSort(nav_pages, Weights(nav_pages))

(***************************************************************************)
(* Spec: build_site over one content tree.  The files come in the order    *)
(* the glob yields them, which the file system decides.                    *)
(***************************************************************************)
Distinct(s) == \A i, j \in 1..Len(s) : i # j => s[i] # s[j]

Trees == {s \in SeqsUpTo(ContentFiles, MaxFiles) : Distinct(s)}

BuildIdle ==
    /\ pc = "idle" /\ tree = <<>> /\ extraDirs = {} /\ cursor = 0
    /\ pages = <<>> /\ posts = <<>> /\ sections = <<>> /\ tags = <<>>
    /\ nav = <<>> /\ public = <<>>

\* content/ as build_site finds it, and public/ emptied (build.py 263-265);
\* extraDirs are directories that hold no Markdown file
BuildInit ==
    /\ pc = "scan"
    /\ tree \in Trees
    /\ extraDirs \in SUBSET {<<Blog>>}
    /\ extraDirs \cap ContentDirs(tree, {}) = {}
    /\ cursor = 1
    /\ pages = <<>>
    /\ posts = <<>>
    /\ sections = <<>>
    /\ tags = <<>>
    /\ nav = <<>>
    /\ public = <<>>

\* open(path, 'w'): the file at path now holds what
WriteFile(disk, path, what) ==
    [p \in DOMAIN disk \cup {path} |-> IF p = path THEN what ELSE disk[p]]

\* build.py 83-171: one iteration of the loop over the Markdown files
ScanFile ==
    /\ pc = "scan"
    /\ cursor <= Len(tree)
    /\ LET f == tree[cursor]
           page == PageObj(f, cursor)
       IN  IF Skipped(f)
           THEN UNCHANGED <<pages, posts, tags, sections>>
           ELSE /\ pages' = Append(pages, page)
                /\ posts' = IF page.is_post THEN Append(posts, page) ELSE posts
                /\ tags' = IF page.is_post
                           THEN AddTags(tags, Get(f.meta, "tags", <<>>), page)
                           ELSE tags
                /\ sections' = IF f.dir # <<>> /\ ~page.is_post
                                  /\ f.dir[1] \notin DOMAIN sections
                               THEN WriteFile(sections, f.dir[1], <<>>)
                               ELSE sections
    /\ cursor' = cursor + 1
    /\ UNCHANGED <<pc, tree, extraDirs, nav, public>>

\* build.py 173-188: the date sort, the section grouping and the navigation
FinishScan ==
    /\ pc = "scan"
    /\ cursor > Len(tree)
    /\ posts' = SortPosts(posts)
    /\ sections' = GroupPosts(sections, posts')
    /\ nav' = get_nav_pages(pages, ContentDirs(tree, extraDirs))
    /\ pc' = "render"
    /\ cursor' = 1
    /\ UNCHANGED <<tree, extraDirs, pages, tags, public>>

\* build.py 289-304: one page rendered and written at its output path
WritePage ==
    /\ pc = "render"
    /\ cursor <= Len(pages)
    /\ public' = WriteFile(public, pages[cursor].output_path,
                           [kind |-> "page", id |-> pages[cursor].id])
    /\ cursor' = cursor + 1
    /\ UNCHANGED <<pc, tree, extraDirs, pages, posts, sections, tags, nav>>

\* build.py 312-332: for tag_slug, tag_data in content['tags'].items()
RECURSIVE WriteTagFiles(_, _)
WriteTagFiles(disk, tgs) ==
    IF tgs = <<>> THEN disk
    ELSE WriteTagFiles(
             WriteFile(disk,
                       PathJoin(<<PUBLIC_DIR, Blog>>, Head(tgs).slug) \o <<INDEX_HTML>>,
                       [kind |-> "tag", slug |-> Head(tgs).slug]),
             Tail(tgs))

\* build.py 306-332: the tag pages, written when the blog section exists
WriteTagPages ==
    /\ pc = "render"
    /\ cursor > Len(pages)
    /\ public' = IF Blog \in DOMAIN sections /\ tags # <<>>
                 THEN WriteTagFiles(public, tags)
                 ELSE public
    /\ pc' = "done"
    /\ UNCHANGED <<tree, extraDirs, cursor, pages, posts, sections, tags, nav>>

\* ---------------------------------------------------------------------
\* generate_url called for the _index file and for the index file of one
\* directory (build.py 96-121 passes is_index for the stem _index and
\* is_content_index for the stem index)

MaxDepth == 2

DirNames == {Blog, Me, <<"a">>}
RelDirs == SeqsUpTo(DirNames, MaxDepth)
UrlSlugs == {<<>>, Index, Me, <<"a","-","b">>}

UrlIdle ==
    /\ urlPc = "idle" /\ urlRelPath = <<>> /\ urlSlug = <<>>
    /\ urlOfIndex = <<>> /\ urlOfContentIndex = <<>>

UrlInit ==
    /\ urlPc = "start"
    /\ urlRelPath \in RelDirs
    /\ urlSlug \in UrlSlugs
    /\ urlOfIndex = <<>>
    /\ urlOfContentIndex = <<>>

\* build.py 117-121 for <rel_path>/_index.md: the slug is '' for an _index
UrlForIndex ==
    /\ urlPc = "start"
    /\ urlOfIndex' = generate_url(urlRelPath, PUBLIC_DIR, TRUE, FALSE, <<>>)
    /\ urlPc' = "index"
    /\ UNCHANGED <<urlRelPath, urlSlug, urlOfContentIndex>>

\* build.py 117-121 for <rel_path>/index.md
UrlForContentIndex ==
    /\ urlPc = "index"
    /\ urlOfContentIndex' = generate_url(urlRelPath, PUBLIC_DIR, FALSE, TRUE, urlSlug)
    /\ urlPc' = "done"
    /\ UNCHANGED <<urlRelPath, urlSlug, urlOfIndex>>

UrlNext ==
    \/ UrlForIndex /\ UNCHANGED <<slugVars, mdVars, buildVars, assetVars, syncVars>>
    \/ UrlForContentIndex /\ UNCHANGED <<slugVars, mdVars, buildVars, assetVars, syncVars>>

\* ---------------------------------------------------------------------
\* Asset rewriting of the importer: replace_asset_reference, the same in
\* process_markdown_assets (utils.py 227-287) and process_obsidian_assets
\* (utils.py 347-443).  A reference is the file name its path resolves to
\* and what the file system does with it: "unresolved" (a URL, a path that
\* does not resolve, a file not found), "ok", "fails" (copy2 raises and
\* leaves nothing) or "partial" (copy2 writes the target, then raises).
\* The assets directory maps a file name to what wrote it: 0 for a file
\* that was there before, i for the copy made for the i-th reference.

MaxRefs == 3

AssetNames == {[stem |-> "a", suffix |-> ".png"], [stem |-> "a_1", suffix |-> ".png"]}
CopyOutcomes == {"unresolved", "ok", "fails", "partial"}
AssetRefs == [name : AssetNames, outcome : CopyOutcomes]
OldAssets == {"a.png", "a_1.png"}

TargetName_NoLoop(dir, asset_filename, original_stem, original_suffix, counter) ==
    asset_filename

\* utils.py 263-274, 412-423: while target_asset_path.exists(): ...
RECURSIVE TargetName(_, _, _, _, _)
TargetName(dir, asset_filename, original_stem, original_suffix, counter) ==
    IF asset_filename \notin DOMAIN dir THEN asset_filename
    ELSE TargetName(dir, original_stem \o "_" \o ToString(counter) \o original_suffix,
                    original_stem, original_suffix, counter + 1)

\* what a match is replaced by: itself, or the image tag or link whose
\* target is src (utils.py 280-283, 428-439)
Unchanged == [rewritten |-> FALSE, src |-> ""]

AssetIdle ==
    /\ asPc = "idle" /\ asRefs = <<>> /\ asCursor = 0
    /\ assetsDir = <<>> /\ assets_copied = 0 /\ asOut = <<>>

AssetInit ==
    /\ asPc = "rewrite"
    /\ asRefs \in SeqsUpTo(AssetRefs, MaxRefs)
    /\ asCursor = 1
    /\ \E old \in SUBSET OldAssets : assetsDir = [n \in old |-> 0]
    /\ assets_copied = 0
    /\ asOut = <<>>

\* utils.py 227-287, 347-443: replace_asset_reference for one match, made for
\* id: the assets directory after it and what the match is replaced by
replace_asset_reference(dir, ref, id) ==
    LET asset_filename ==
            TargetName(dir, ref.name.stem \o ref.name.suffix,
                       ref.name.stem, ref.name.suffix, 1)
    IN  [dir |-> IF ref.outcome \in {"ok", "partial"}
                 THEN WriteFile(dir, asset_filename, id)
                 ELSE dir,
         out |-> IF ref.outcome = "ok"
                 THEN [rewritten |-> TRUE, src |-> "assets/" \o asset_filename]
                 ELSE Unchanged]

\* re.sub calls replace_asset_reference for the next match
ReplaceAssetReference ==
    /\ asPc = "rewrite"
    /\ asCursor <= Len(asRefs)
    /\ LET r == replace_asset_reference(assetsDir, asRefs[asCursor], asCursor)
       IN  /\ assetsDir' = r.dir
           /\ assets_copied' = IF r.out.rewritten THEN assets_copied + 1
                               ELSE assets_copied
           /\ asOut' = Append(asOut, r.out)
    /\ asCursor' = asCursor + 1
    /\ UNCHANGED <<asPc, asRefs>>

\* utils.py 293, 450: return content, assets_copied
AssetsReturn ==
    /\ asPc = "rewrite"
    /\ asCursor > Len(asRefs)
    /\ asPc' = "done"
    /\ UNCHANGED <<asRefs, asCursor, assetsDir, assets_copied, asOut>>

AssetNext ==
    \/ ReplaceAssetReference /\ UNCHANGED <<slugVars, mdVars, buildVars, urlVars, syncVars>>
    \/ AssetsReturn /\ UNCHANGED <<slugVars, mdVars, buildVars, urlVars, syncVars>>

\* ---------------------------------------------------------------------
\* sync_content (build.py 190-246).  content is the tree under CONTENT_DIR:
\* a path (relative to it) maps to a file [kind, from, body], where kind is
\* "old" for a file from before the sync, "blog_index" for the file written
\* by create_blog_index, "post" for an index.md (from: the place of its
\* source file in the glob, body: what its references were replaced by) and
\* "asset" for a copied asset.  vault is the glob of the external path, each
\* file with the asset references of its text.

MaxVault == 3

Md == <<".","m","d">>
IndexMd == Index \o Md
UnderscoreIndexMd == UnderscoreIndex \o Md
Assets == <<"a","s","s","e","t","s">>

APng == [name |-> [stem |-> "a", suffix |-> ".png"], outcome |-> "ok"]
Lost == [name |-> [stem |-> "a_1", suffix |-> ".png"], outcome |-> "unresolved"]

VaultFiles ==
    { [dir |-> <<>>, stem |-> <<"N","o","t","e">>, refs |-> <<APng>>],
      [dir |-> <<<<"s">>>>, stem |-> <<"n","o","t","e">>, refs |-> <<APng, APng>>],
      [dir |-> <<>>, stem |-> <<"b">>, refs |-> <<>>],
      [dir |-> <<>>, stem |-> <<"t","o"," ","d","o">>, refs |-> <<Lost>>],
      [dir |-> <<>>, stem |-> <<"_","d">>, refs |-> <<APng>>],
      [dir |-> <<<<".","o">>>>, stem |-> <<"c">>, refs |-> <<>>] }

OldFile == [kind |-> "old", from |-> 0, body |-> <<>>]

\* the content tree before the sync: a page, and perhaps a blog subtree
OldContents ==
    { [p \in {<<Me \o Md>>} |-> OldFile],
      [p \in {<<Me \o Md>>, <<Blog, UnderscoreIndexMd>>,
              <<Blog, <<"n","o","t","e">>, IndexMd>>,
              <<Blog, <<"n","o","t","e">>, Assets, <<"a.png">>>>} |-> OldFile] }

IsUnder(path, d) == Len(path) > Len(d) /\ SubSeq(path, 1, Len(d)) = d

\* shutil.rmtree(d)
RemoveTree(disk, d) == [p \in {q \in DOMAIN disk : ~IsUnder(q, d)} |-> disk[p]]

\* utils.py 194-204: create_blog_index
create_blog_index(disk, blog_dir) ==
    WriteFile(disk, blog_dir \o <<UnderscoreIndexMd>>,
              [kind |-> "blog_index", from |-> 0, body |-> <<>>])

\* the directory target_dir/assets: each file name with the source file the
\* copy was made for
AssetsOf(disk, target_dir) ==
    LET assets_dir == target_dir \o <<Assets>>
        files == {p \in DOMAIN disk : Len(p) = Len(assets_dir) + 1 /\ IsUnder(p, assets_dir)}
    IN  [n \in {p[Len(p)][1] : p \in files} |-> disk[assets_dir \o <<<<n>>>>].from]

\* utils.py 208-213, 290-291, 446-448: the substitutions over the text, one
\* replace_asset_reference for each reference
RECURSIVE process_assets(_, _, _)
process_assets(dir, refs, id) ==
    IF refs = <<>> THEN [dir |-> dir, content |-> <<>>]
    ELSE LET r == replace_asset_reference(dir, Head(refs), id)
             rest == process_assets(r.dir, Tail(refs), id)
         IN  [dir |-> rest.dir, content |-> <<r.out>> \o rest.content]

\* the files of dir written back under target_dir/assets
RECURSIVE StoreAssets(_, _, _)
StoreAssets(disk, target_dir, dir) ==
    IF DOMAIN dir = {} THEN disk
    ELSE LET n == CHOOSE m \in DOMAIN dir : TRUE
         IN  StoreAssets(WriteFile(disk, target_dir \o <<Assets, <<n>>>>,
                                   [kind |-> IF dir[n] = 0 THEN "old" ELSE "asset",
                                    from |-> dir[n], body |-> <<>>]),
                         target_dir,
                         [m \in DOMAIN dir \ {n} |-> dir[m]])

SyncIdle ==
    /\ syncPc = "idle" /\ external_path = "unset" /\ vault = <<>>
    /\ syncCursor = 0 /\ content = <<>>

SyncInit ==
    /\ syncPc = "start"
    /\ external_path \in {"unset", "missing", "exists"}
    /\ vault \in {v \in SeqsUpTo(VaultFiles, MaxVault) :
                      Distinct(v) /\ (external_path # "exists" => v = <<>>)}
    /\ syncCursor = 1
    /\ content \in OldContents

SyncSkip_CleansFirst ==
    /\ syncPc = "start"
    /\ external_path # "exists"
    /\ content' = create_blog_index(RemoveTree(content, <<Blog>>), <<Blog>>)
    /\ syncPc' = "done"
    /\ UNCHANGED <<external_path, vault, syncCursor>>

\* build.py 195-202: no path configured, or the path does not exist
SyncSkip ==
    /\ syncPc = "start"
    /\ external_path # "exists"
    /\ syncPc' = "done"
    /\ UNCHANGED <<external_path, vault, syncCursor, content>>

\* build.py 209-216: rmtree, ensure_dir, create_blog_index
SyncClean ==
    /\ syncPc = "start"
    /\ external_path = "exists"
    /\ content' = create_blog_index(RemoveTree(content, <<Blog>>), <<Blog>>)
    /\ syncPc' = "files"
    /\ UNCHANGED <<external_path, vault, syncCursor>>

\* build.py 219-244: one file of the glob
SyncFile ==
    /\ syncPc = "files"
    /\ syncCursor <= Len(vault)
    /\ LET md_file == vault[syncCursor]
           post_slug == slugify(md_file.stem)
           post_dir == PathJoin(<<Blog>>, post_slug)
           r == process_assets(AssetsOf(content, post_dir), md_file.refs, syncCursor)
       IN  content' =
               IF InHiddenFolder(md_file) \/ StartsWithUnderscore(md_file.stem)
               THEN content
               ELSE WriteFile(StoreAssets(content, post_dir, r.dir),
                              post_dir \o <<IndexMd>>,
                              [kind |-> "post", from |-> syncCursor, body |-> r.content])
    /\ syncCursor' = syncCursor + 1
    /\ UNCHANGED <<syncPc, external_path, vault>>

\* build.py 246: the glob is exhausted
SyncDone ==
    /\ syncPc = "files"
    /\ syncCursor > Len(vault)
    /\ syncPc' = "done"
    /\ UNCHANGED <<external_path, vault, syncCursor, content>>

SyncNext ==
    \/ SyncSkip /\ UNCHANGED <<slugVars, mdVars, buildVars, urlVars, assetVars>>
    \/ SyncClean /\ UNCHANGED <<slugVars, mdVars, buildVars, urlVars, assetVars>>
    \/ SyncFile /\ UNCHANGED <<slugVars, mdVars, buildVars, urlVars, assetVars>>
    \/ SyncDone /\ UNCHANGED <<slugVars, mdVars, buildVars, urlVars, assetVars>>

Next ==
    \/ ScanFile /\ UNCHANGED <<slugVars, mdVars, urlVars, assetVars, syncVars>>
    \/ FinishScan /\ UNCHANGED <<slugVars, mdVars, urlVars, assetVars, syncVars>>
    \/ WritePage /\ UNCHANGED <<slugVars, mdVars, urlVars, assetVars, syncVars>>
    \/ WriteTagPages /\ UNCHANGED <<slugVars, mdVars, urlVars, assetVars, syncVars>>

Init == BuildInit /\ SlugIdle /\ MdIdle /\ UrlIdle /\ AssetIdle /\ SyncIdle

Spec == Init /\ [][Next]_vars

SlugSpecInit == SlugInit /\ MdIdle /\ BuildIdle /\ UrlIdle /\ AssetIdle /\ SyncIdle

SlugSpec == SlugSpecInit /\ [][SlugNext]_vars

MdSpecInit == MdInit /\ SlugIdle /\ BuildIdle /\ UrlIdle /\ AssetIdle /\ SyncIdle

MdSpec == MdSpecInit /\ [][MdNext]_vars

UrlSpecInit == UrlInit /\ SlugIdle /\ MdIdle /\ BuildIdle /\ AssetIdle /\ SyncIdle

UrlSpec == UrlSpecInit /\ [][UrlNext]_vars

AssetSpecInit == AssetInit /\ SlugIdle /\ MdIdle /\ BuildIdle /\ UrlIdle /\ SyncIdle

AssetSpec == AssetSpecInit /\ [][AssetNext]_vars

SyncSpecInit ==
    SyncInit /\ SlugIdle /\ MdIdle /\ BuildIdle /\ UrlIdle /\ AssetIdle

SyncSpec == SyncSpecInit /\ [][SyncNext]_vars

(***************************************************************************)
(* Properties.                                                             *)
(***************************************************************************)
Returned == pc \in {"render", "done"}

\* C1: every slug slugify returns consists of characters of [a-z0-9-] only,
\* neither begins nor ends with '-', and is a fixed point of slugify.
C1_SlugifyContract ==
    slugPc = "done" =>
        /\ \A i \in 1..Len(slugOut) : IsLower(slugOut[i]) \/ slugOut[i] \in Digits \/ slugOut[i] = "-"
        /\ slugOut # <<>> => Head(slugOut) # "-" /\ Last(slugOut) # "-"
        /\ slugOut2 = slugOut

\* a title with a leading blank, an upper-case letter and an underscore has
\* been slugified twice
C1_Witness ==
    /\ slugPc = "done"
    /\ slugIn = <<" ", "B", "_", "a">>
    /\ slugOut = <<"b", "-", "a">>

IsRootIndexPage(page) == tree[page.id].dir = <<>> /\ tree[page.id].stem = UnderscoreIndex

\* C2: every page's URL starts with '/', every page's URL other than the root
\* index's ends with '/', and the root index's URL is exactly '/'.
C2_UrlShape ==
    \A i \in 1..Len(pages) :
        /\ pages[i].url # <<>> /\ Head(pages[i].url) = "/"
        /\ ~IsRootIndexPage(pages[i]) => Last(pages[i].url) = "/"
        /\ IsRootIndexPage(pages[i]) => pages[i].url = <<"/">>

\* a finished build with the root index, a nested page and a content index
C2_Witness ==
    /\ pc = "done"
    /\ \E i, j, k \in 1..Len(pages) :
        /\ IsRootIndexPage(pages[i])
        /\ pages[j].level = 1 /\ ~pages[j].is_index
        /\ tree[pages[k].id].stem = Index

\* C3: the returned post list is in descending date order, and posts of one
\* date are in the order the scan found them.
C3_PostsSortedStable ==
    Returned =>
        \A i, j \in 1..Len(posts) :
            i < j => /\ posts[i].date >= posts[j].date
                     /\ posts[i].date = posts[j].date => posts[i].id < posts[j].id

\* three posts, the newest found last and moved to the front, the other two of
\* one date
C3_Witness ==
    /\ pc = "done"
    /\ Len(posts) = 3
    /\ posts[1].id = 3
    /\ posts[1].date > posts[2].date
    /\ posts[2].date = posts[3].date

IsHomeEntry(e) == e.title = <<"H","o","m","e">> /\ e.url = <<"/">> /\ e.weight = 0
IsBlogEntry(e) ==
    e.title = <<"B","l","o","g">> /\ e.url = <<"/","b","l","o","g","/">> /\ e.weight = 100

\* the page an entry of the navigation was made from, 0 if none
EntryPage(e) ==
    IF \E i \in 1..Len(pages) : pages[i].url = e.url /\ pages[i].title = e.title
    THEN CHOOSE i \in 1..Len(pages) : pages[i].url = e.url /\ pages[i].title = e.title
    ELSE 0

\* the place of an entry in append order: Home, the pages as scanned, Blog
AppendRank(e) ==
    IF IsHomeEntry(e) THEN 0
    ELSE IF IsBlogEntry(e) THEN Len(pages) + 1
    ELSE EntryPage(e)

\* C4: the navigation is in ascending weight order with ties in append order,
\* holds the Home entry ('/', weight 0), and holds the Blog entry ('/blog/',
\* weight 100) exactly when content/blog is a directory.
C4_NavOrder ==
    Returned =>
        /\ \A i, j \in 1..Len(nav) :
              i < j => /\ nav[i].weight <= nav[j].weight
                       /\ nav[i].weight = nav[j].weight
                              => AppendRank(nav[i]) < AppendRank(nav[j])
        /\ \E i \in 1..Len(nav) : IsHomeEntry(nav[i])
        /\ (\E i \in 1..Len(nav) : IsBlogEntry(nav[i]))
               <=> <<Blog>> \in ContentDirs(tree, extraDirs)

\* a blog directory without posts, a page of weight 0 behind Home and a page
\* of weight 100 ahead of Blog, found in the other order
C4_Witness ==
    /\ pc = "done"
    /\ posts = <<>>
    /\ Len(nav) = 4
    /\ IsHomeEntry(nav[1]) /\ nav[2].weight = 0
    /\ nav[3].weight = 100 /\ IsBlogEntry(nav[4])
    /\ EntryPage(nav[3]) < EntryPage(nav[2])

\* the entries of the navigation made from page i
EntriesOf(i) == {k \in 1..Len(nav) : ~IsHomeEntry(nav[k]) /\ ~IsBlogEntry(nav[k])
                                     /\ EntryPage(nav[k]) = i}

\* C5: besides Home and Blog the navigation holds one entry for each page that
\* is no post, no _index, no content index and at level 0, and none for any
\* other page.
C5_NavPagesExact ==
    Returned =>
        /\ \A i \in 1..Len(pages) :
              Cardinality(EntriesOf(i)) =
                  IF /\ ~pages[i].is_post /\ ~pages[i].is_index
                     /\ tree[pages[i].id].stem # Index /\ pages[i].level = 0
                  THEN 1 ELSE 0
        /\ \A k \in 1..Len(nav) :
              IsHomeEntry(nav[k]) \/ IsBlogEntry(nav[k]) \/ EntryPage(nav[k]) # 0

\* C6: the rendered text holds no placeholder token, and every span that was
\* extracted occurs in it as it was stored.
C6_LatexRestored ==
    mdPc = "done" =>
        /\ \A i \in 1..Len(mdText) : ~IsPlaceholder(mdText[i])
        /\ \A k \in 1..Len(placeholders) : Contains(mdText, placeholders[k][2])

\* the <img ...> tags of an HTML token text, each as the tokens between
\* "<img " and the next ">"
RECURSIVE ImgTags(_, _)
ImgTags(t, p) ==
    IF p > Len(t) THEN <<>>
    ELSE IF t[p] = "<img " /\ \E q \in (p + 1)..Len(t) : t[q] = ">"
    THEN LET q == Min({k \in (p + 1)..Len(t) : t[k] = ">"})
         IN  <<SubSeq(t, p + 1, q - 1)>> \o ImgTags(t, q + 1)
    ELSE ImgTags(t, p + 1)

\* the width a reference asks for: the digits of |N or |Npx, else none
AskedWidth(r) ==
    IF r.spec # <<>> /\ IsDigits(Tail(r.spec)) THEN Tail(r.spec)
    ELSE IF Len(r.spec) > 2 /\ Last(r.spec) = "px"
            /\ IsDigits(SubSeq(r.spec, 2, Len(r.spec) - 1))
    THEN SubSeq(r.spec, 2, Len(r.spec) - 1)
    ELSE <<>>

\* a reference whose width part holds no digit at all
NonNumeric(r) == \A i \in 1..Len(r.spec) : r.spec[i] \notin Digits

\* C7: a reference ![alt|N](src) or ![alt|Npx](src) yields an <img> tag with
\* width="N" and no marker comment stays; a reference with a non-numeric width
\* yields the tag of the unchanged reference, without a width attribute.
C7_ImageWidths ==
    (mdPc = "done" /\ mdRefs # <<>>) =>
        LET imgs == ImgTags(mdText, 1)
        IN  /\ Len(imgs) = Len(mdRefs)
            /\ \A i \in 1..Len(mdText) : mdText[i] # "<!-- img-width:"
            /\ \A i \in 1..Len(mdRefs) :
                  /\ AskedWidth(mdRefs[i]) # <<>> =>
                        imgs[i] = <<"alt=\"">> \o mdRefs[i].alt \o <<"\" src=\"">>
                                  \o mdRefs[i].src \o <<"\" /", " width=\"">>
                                  \o AskedWidth(mdRefs[i]) \o <<"\"">>
                  /\ NonNumeric(mdRefs[i]) =>
                        imgs[i] = <<"alt=\"">> \o mdRefs[i].alt \o mdRefs[i].spec
                                  \o <<"\" src=\"">> \o mdRefs[i].src \o <<"\" /">>

\* the slugs of the tags a page's frontmatter lists
TagSlugsOf(page) ==
    LET ts == Get(page.metadata, "tags", <<>>)
    IN  {slugify(ts[i]) : i \in 1..Len(ts)}

\* the posts that carry the tag, in discovery order
RECURSIVE Carriers(_, _)
Carriers(ps, tag_slug) ==
    IF ps = <<>> THEN <<>>
    ELSE (IF Head(ps).is_post /\ tag_slug \in TagSlugsOf(Head(ps)) THEN <<Head(ps)>> ELSE <<>>)
         \o Carriers(Tail(ps), tag_slug)

\* C8: the tag index holds one record for each tag slug of any post; a
\* record's count is the number of posts carrying the tag, and its member list
\* is those posts, each once, in discovery order.
C8_TagIndex ==
    Returned =>
        /\ {tags[k].slug : k \in 1..Len(tags)}
               = UNION {TagSlugsOf(posts[i]) : i \in 1..Len(posts)}
        /\ \A k, l \in 1..Len(tags) : tags[k].slug = tags[l].slug => k = l
        /\ \A k \in 1..Len(tags) :
              /\ tags[k].posts = Carriers(pages, tags[k].slug)
              /\ tags[k].count = Len(Carriers(pages, tags[k].slug))

\* C9: no two pages share an output path, and once the build is done every
\* page's output path holds that page's rendering.
C9_PagesKeepTheirFiles ==
    /\ \A i, j \in 1..Len(pages) :
          i # j => pages[i].output_path # pages[j].output_path
    /\ pc = "done" =>
          \A i \in 1..Len(pages) :
              /\ pages[i].output_path \in DOMAIN public
              /\ public[pages[i].output_path] = [kind |-> "page", id |-> pages[i].id]

\* C10: once the build is done, public/blog/<tag_slug>/index.html holds the
\* tag page of every tag of the tag index.
C10_TagPagesWritten ==
    pc = "done" =>
        \A k \in 1..Len(tags) :
            LET path == <<PUBLIC_DIR, Blog, tags[k].slug, INDEX_HTML>>
            IN  /\ path \in DOMAIN public
                /\ public[path] = [kind |-> "tag", slug |-> tags[k].slug]

\* the subsequence of ps whose section is sec
RECURSIVE InSection(_, _)
InSection(ps, sec) ==
    IF ps = <<>> THEN <<>>
    ELSE IF Head(ps).section = sec THEN <<Head(ps)>> \o InSection(Tail(ps), sec)
    ELSE InSection(Tail(ps), sec)

\* C11: after process_content every post's section is a key of sections, the
\* list under each key is exactly the posts of that section in the order of the
\* sorted post list, and the top-level directory of every non-post page in a
\* subdirectory is a key.
C11_PostsFiledInSections ==
    Returned =>
        /\ \A i \in 1..Len(posts) : posts[i].section \in DOMAIN sections
        /\ \A sec \in DOMAIN sections : sections[sec] = InSection(posts, sec)
        /\ \A i \in 1..Len(pages) :
              (~pages[i].is_post /\ tree[pages[i].id].dir # <<>>)
                  => tree[pages[i].id].dir[1] \in DOMAIN sections

\* C12: for every relative directory, the content root included, generate_url
\* gives the index file of the directory the same URL and the same output
\* path as it gives the _index file of that directory.
C12_ContentIndexLikeSectionIndex ==
    urlPc = "done" =>
        /\ urlOfContentIndex.url = urlOfIndex.url
        /\ urlOfContentIndex.output_path = urlOfIndex.output_path

\* the claim's excluded files: a path segment starting with '.', a stem
\* starting with '_' other than _index, or frontmatter draft: true
Excluded(f) ==
    \/ \E i \in 1..Len(f.dir) : Head(f.dir[i]) = "."
    \/ Head(f.stem) = "."
    \/ Head(f.stem) = "_" /\ f.stem # UnderscoreIndex
    \/ "draft" \in DOMAIN f.meta /\ f.meta.draft = TRUE

FromKept(page) == ~Excluded(tree[page.id])

\* C13: an excluded file contributes nothing: every page, every post, every
\* member of a tag record and of a section list comes from a file that is not
\* excluded, every tag record has a member, every section key is the top
\* directory of a non-post page that is not excluded, and every navigation
\* entry other than Home and Blog is the entry of such a page.
C13_ExcludedContributeNothing ==
    /\ \A i \in 1..Len(pages) : FromKept(pages[i])
    /\ \A i \in 1..Len(posts) : FromKept(posts[i])
    /\ \A k \in 1..Len(tags) :
          /\ tags[k].posts # <<>>
          /\ \A i \in 1..Len(tags[k].posts) : FromKept(tags[k].posts[i])
    /\ \A sec \in DOMAIN sections :
          /\ \E i \in 1..Len(tree) :
                /\ ~Excluded(tree[i]) /\ ~IsPost(tree[i])
                /\ tree[i].dir # <<>> /\ tree[i].dir[1] = sec
          /\ \A i \in 1..Len(sections[sec]) : FromKept(sections[sec][i])
    /\ \A k \in 1..Len(nav) :
          IsHomeEntry(nav[k]) \/ IsBlogEntry(nav[k]) \/ EntryPage(nav[k]) # 0

\* a finished build of a tree holding a draft _index, a draft post with a tag
\* and a page that is kept
C13_Witness ==
    /\ pc = "done"
    /\ pages # <<>>
    /\ \E i \in 1..Len(tree) :
          tree[i].stem = UnderscoreIndex /\ IsDraftByFrontmatter(tree[i])
    /\ \E i \in 1..Len(tree) :
          /\ IsPost(tree[i]) /\ IsDraftByFrontmatter(tree[i])
          /\ "tags" \in DOMAIN tree[i].meta

\* the targets of the references rewritten so far, in order
Targets == [i \in {k \in 1..Len(asOut) : asOut[k].rewritten} |-> asOut[i].src]

\* the name <stem>_<k><suffix> of a reference's file
Renamed(name, k) == name.stem \o "_" \o ToString(k) \o name.suffix

\* one reference is rewritten in this step
Rewrites == Len(asOut') = Len(asOut) + 1 /\ asOut'[Len(asOut')].rewritten

\* the rewritten reference points at a file that was not there, named by the
\* source file or, when that name was taken, by the smallest free <stem>_<k>
RewriteTargetIsFirstFree ==
    LET i == Len(asOut')
        name == asRefs[i].name
        base == name.stem \o name.suffix
    IN  \E t \in DOMAIN assetsDir' \ DOMAIN assetsDir :
            /\ asOut'[i].src = "assets/" \o t
            /\ assetsDir'[t] = i
            /\ \/ t = base
               \/ /\ base \in DOMAIN assetsDir
                  /\ \E k \in 1..(Cardinality(DOMAIN assetsDir) + 1) :
                        /\ t = Renamed(name, k)
                        /\ \A j \in 1..(k - 1) : Renamed(name, j) \in DOMAIN assetsDir

\* C14: in the asset rewriting of the importer no step changes a file that
\* is already in the assets directory; a rewritten reference points at the
\* copy just made, under the source file's name or, on a collision, under
\* <stem>_<k><suffix> for the smallest k >= 1 not present; the rewritten
\* references have pairwise distinct targets; and assets_copied is the number
\* of rewritten references.
C14_CopiesNeverOverwrite ==
    /\ [][/\ \A n \in DOMAIN assetsDir :
                n \in DOMAIN assetsDir' /\ assetsDir'[n] = assetsDir[n]
           /\ Rewrites => RewriteTargetIsFirstFree]_vars
    /\ [](/\ \A i, j \in DOMAIN Targets : i # j => Targets[i] # Targets[j]
          /\ assets_copied = Cardinality(DOMAIN Targets))

\* the rewriting returned after a copy took the name a_1_1.png: a.png and
\* a_1.png were both present when a reference to a_1.png was rewritten
C14_Witness ==
    /\ asPc = "done"
    /\ \E i \in DOMAIN Targets : Targets[i] = "assets/a_1_1.png"
    /\ \E i \in DOMAIN Targets : Targets[i] = "assets/a_1.png"
    /\ "a.png" \in DOMAIN assetsDir /\ assetsDir["a.png"] = 0

Synced == syncPc = "done" /\ external_path = "exists"

\* the claim's eligible source files: not under a dot-directory, and the
\* name does not start with '_'
Eligible(f) ==
    /\ \A i \in 1..Len(f.dir) : Head(f.dir[i]) # "."
    /\ Head(f.stem) \notin {".", "_"}

EligibleFiles == {i \in 1..Len(vault) : Eligible(vault[i])}

\* the directories directly under content/blog
PostDirs == {SubSeq(p, 1, 2) : p \in {q \in DOMAIN content : Len(q) > 2 /\ q[1] = Blog}}

\* C15: after a sync the blog subtree has exactly one post directory for each
\* eligible source file, named by the slugified file name and holding an
\* index.md with that file's rewritten content.
C15_OneDirectoryPerFile ==
    Synced =>
        /\ Cardinality(PostDirs) = Cardinality(EligibleFiles)
        /\ \A i \in EligibleFiles :
              LET path == <<Blog, slugify(vault[i].stem), IndexMd>>
              IN  /\ path \in DOMAIN content
                  /\ content[path].kind = "post"
                  /\ content[path].from = i

\* C16: a sync whose path is not configured or does not exist changes no
\* file; a sync whose path exists leaves no file of the old blog subtree and
\* leaves the synthetic blog/_index.md, and leaves the files outside the blog
\* subtree alone.
C16_SyncOnlyWhenPathExists ==
    /\ [][external_path # "exists" => content' = content]_vars
    /\ [](syncPc \in {"files", "done"} /\ external_path = "exists" =>
            /\ \A p \in DOMAIN content :
                  content[p].kind = "old" <=> ~IsUnder(p, <<Blog>>)
            /\ <<Blog, UnderscoreIndexMd>> \in DOMAIN content
            /\ content[<<Blog, UnderscoreIndexMd>>].kind = "blog_index")

\* a sync that returned because the path does not exist, with the old blog
\* subtree in place
C16_Witness ==
    /\ syncPc = "done"
    /\ external_path = "missing"
    /\ <<Blog, <<"n","o","t","e">>, IndexMd>> \in DOMAIN content
    /\ content[<<Blog, <<"n","o","t","e">>, IndexMd>>].kind = "old"

====
